---- MODULE Spec2Model ----
(***************************************************************************)
(* Post lifecycle of link-ai-friend: the posts table, the user profile     *)
(* counters and the notifications table, as written by the web client      *)
(* hooks (usePostsClean, useScheduledPosts), the sync-post edge function   *)
(* and the check-overdue-posts edge function.                              *)
(*                                                                         *)
(* Time is counted in minutes.  Every handler is one atomic action here:   *)
(* the handlers are invoked one after the other, and the clock does not    *)
(* advance between them (schedule times are drawn relative to it), except *)
(* in the specifications that include Tick.                                *)
(***************************************************************************)
EXTENDS Integers, FiniteSets, Sequences, TLC

VARIABLES posts, profiles, notifications, now, last, bridge, publishing, syncing, feed

vars == <<posts, profiles, notifications, now, last, bridge, publishing, syncing, feed>>

----------------------------------------------------------------------------
(* Bounds of the exploration *)

MaxPosts == 1
MaxNotifs == 2
\* the clock stops at MaxTime minutes (specifications with Tick)
MaxTime == 2
\* and at MaxHours further hours (specifications with HourPasses)
MaxHours == 2
\* linkedin-post requests that reach the LinkedIn API
MaxPublished == 1
\* rows in the table when a client fetches its list
MaxListed == 3
\* fetchPosts requests a hook has called by itself and still awaits
MaxFetches == 1

----------------------------------------------------------------------------
(* Program constants *)

\* 60 * 60 * 1000 ms, in minutes
OneHour == 60
\* validateScheduleTime: at least 2 minutes from now
TwoMinutes == 2
\* validateScheduleTime: at most 30 days from now, in minutes
ThirtyDays == 43200

NULL == "null"

\* a nullable timestamp or key is <<>> (SQL NULL) or <<v>>
None == <<>>
Some(v) == <<v>>
Val(o) == o[1]

Users == {"A", "B"}
PostIds == 1..MaxPosts

\* posts_status_check
StatusEnum == {"pending", "posting", "posted", "failed"}

\* the tracking id schedulePost generates for the row that gets id i
TrackingOf(i) == Some(i)
TrackingIds == {TrackingOf(i) : i \in PostIds}

UnknownError == "Unknown error"
TimeframeError == "Post was not published within expected timeframe. Extension may not have been active."

\* notification titles
PostPublished == "Post Published"
PostFailed == "Post Failed"
PostStatusUpdated == "Post Status Updated"
PostFailedOverdue == "Post Failed (overdue)"
Titles == {PostPublished, PostFailed, PostStatusUpdated, PostFailedOverdue}

----------------------------------------------------------------------------
(* The store *)

\* posts is the table: a function from the ids of the stored rows to the rows
Exists(P, i) == i \in DOMAIN P

FreeIds(P) == PostIds \ DOMAIN P

Insert(P, i, row) == [j \in DOMAIN P \cup {i} |-> IF j = i THEN row ELSE P[j]]

\* the operation that ran last, what it was called with and what it answered
\* (history only: no action reads it)

\* the server-generated id of the next inserted row
NextId(P) == CHOOSE i \in FreeIds(P) : \A j \in FreeIds(P) : i <= j

\* NewRow with the status chosen from the schedule time
NewRowScheduled(u, content, photo, sched, tracking) ==
  [ user_id |-> u,
    content |-> content,
    photo_url |-> photo,
    tracking_id |-> tracking,
    scheduled_time |-> sched,
    status |-> IF sched = None THEN "pending" ELSE "posting",
    linkedin_post_id |-> NULL,
    linkedin_post_url |-> NULL,
    posted_at |-> None,
    last_error |-> NULL,
    retry_count |-> 0,
    verified |-> FALSE,
    created_at |-> now,
    updated_at |-> now ]

\* a row of the posts table as the client inserts it; the columns the
\* insert does not name take their defaults
NewRow(u, content, photo, sched, tracking) ==
  [ user_id |-> u,
    content |-> content,
    photo_url |-> photo,
    tracking_id |-> tracking,
    scheduled_time |-> sched,
    status |-> "pending",
    linkedin_post_id |-> NULL,
    linkedin_post_url |-> NULL,
    posted_at |-> None,
    last_error |-> NULL,
    retry_count |-> 0,
    verified |-> FALSE,
    created_at |-> now,
    updated_at |-> now ]

RECURSIVE SumOver(_, _)
SumOver(N, K) ==
  IF K = {} THEN 0
  ELSE LET k == CHOOSE x \in K : TRUE IN N[k] + SumOver(N, K \ {k})

\* number of rows of the notifications table
NotifTotal(N) == SumOver(N, DOMAIN N)

\* notifications.insert({user_id, title, ...})
InsertNotification(N, u, title) == [N EXCEPT ![<<u, title>>] = @ + 1]

\* the calls a page may have outstanding at the same time
Calls == {1, 2}

\* no hook operation awaits the call
NoCaller == [op |-> "none", user |-> NULL, id |-> 0]

\* a call slot of the local bridge before any call: no promise, listener or timer
BridgeIdle ==
  [ call |-> "none", postId |-> 0, settled |-> "none", listening |-> FALSE,
    timer |-> FALSE, elapsed |-> 0, success |-> FALSE, error |-> NULL,
    caller |-> NoCaller ]

\* the linkedin-post requests that may be in progress at the same time
PublishCalls == {1, 2}

\* no linkedin-post request in this slot
NotPublishing == [stage |-> "idle", user |-> NULL, postId |-> 0]

\* the sync-post requests that may be in progress at the same time
SyncCalls == {1, 2}

\* no sync-post request in this slot
NotSyncing == [stage |-> "idle", user |-> NULL, count |-> 0, args |-> [user |-> NULL]]

\* the hooks of the page, and the user signed in on it
Hooks == {"useScheduledPosts", "usePostsClean"}
Viewer == "A"

\* the page before its hooks have fetched anything: seen is the table as the
\* change feed has read it, queue the events not yet handled by each hook's
\* subscription, list the statuses each hook shows by post id, fetching the
\* fetchPosts responses each hook still awaits
----------------------------------------------------------------------------
Init ==
  /\ posts = <<>>
  /\ profiles = [u \in Users |-> [posts_published_count |-> 0, daily_post_count |-> 0]]
  /\ notifications = [k \in Users \X Titles |-> 0]
  /\ now = 0
  /\ last = [op |-> "init", args |-> [user |-> NULL], resp |-> NULL]
  /\ bridge = [c \in Calls |-> BridgeIdle]
  /\ publishing = [k \in PublishCalls |-> NotPublishing]
  /\ syncing = [k \in SyncCalls |-> NotSyncing]
  /\ feed = [ seen |-> <<>>,
              queue |-> [h \in Hooks |-> <<>>],
              list |-> [h \in Hooks |-> <<>>],
              fetching |-> [h \in Hooks |-> <<>>] ]

----------------------------------------------------------------------------
(* Web client: usePostsClean.createPost *)

Contents == {"Launching our new product today!"}
Photos == {NULL}

\* the full range of contents and images, explored by SpecCreate
AllContents == {"", "Hi", "Launching our new product today!"}
AllPhotos == {NULL, "img"}

\* scheduled_for values a caller may supply: none, more than an hour ago,
\* a minute ago, in two minutes
CreateSchedules == {None, Some(now - OneHour - 1), Some(now - 1), Some(now + TwoMinutes)}

\* createPost with the generated id taken from ids
CreatePostIn(ids, u, content, photo, sched) ==
  /\ ids \ DOMAIN posts # {}
  /\ u # NULL
  /\ LET id == CHOOSE i \in ids \ DOMAIN posts : \A j \in ids \ DOMAIN posts : i <= j IN
       /\ posts' = Insert(posts, id, NewRow(u, content, photo, sched, None))
       /\ last' = [op |-> "createPost", args |-> [user |-> u, id |-> id], resp |-> "ok"]
  /\ UNCHANGED <<profiles, notifications, now, bridge, publishing, syncing, feed>>

CreatePost(u, content, photo, sched) == CreatePostIn(PostIds, u, content, photo, sched)

----------------------------------------------------------------------------
(* Web client: useScheduledPosts.schedulePost *)

\* lib/scheduling.ts validateScheduleTime; t = None is an unparsable date
validateScheduleTime(t) ==
  IF t = None THEN "INVALID_FORMAT"
  ELSE IF Val(t) <= now THEN "PAST_TIME"
  ELSE IF Val(t) > now + ThirtyDays THEN "TOO_FAR"
  ELSE IF Val(t) < now + TwoMinutes THEN "TOO_SOON"
  ELSE "valid"

ScheduleInputs == {None, Some(now), Some(now + 1), Some(now + TwoMinutes), Some(now + ThirtyDays + 1)}

SchedulePost(u, content, t, photo) ==
  /\ FreeIds(posts) # {}
  /\ u # NULL
  /\ IF validateScheduleTime(t) # "valid"
     THEN /\ UNCHANGED posts
          /\ last' = [op |-> "schedulePost", args |-> [user |-> u], resp |-> validateScheduleTime(t)]
     ELSE LET id == NextId(posts) IN
          /\ posts' = Insert(posts, id, NewRow(u, content, photo, t, TrackingOf(id)))
          /\ last' = [op |-> "schedulePost", args |-> [user |-> u, id |-> id], resp |-> "ok"]
  /\ UNCHANGED <<profiles, notifications, now, bridge, publishing, syncing, feed>>

----------------------------------------------------------------------------
(* Web client: useScheduledPosts.updatePostStatus *)

\* row-level security of the posts table: a client session reads and writes
\* only the rows of its authenticated user
RlsVisible(P, u, i) == Exists(P, i) /\ u # NULL /\ P[i].user_id = u

ABSENT == "absent"

AdditionalDatas ==
  { [linkedin_post_id |-> ABSENT, linkedin_post_url |-> ABSENT, last_error |-> ABSENT],
    [linkedin_post_id |-> ABSENT, linkedin_post_url |-> "url", last_error |-> "Timeout"] }

Merge(old, new) == IF new = ABSENT THEN old ELSE new

\* ClientUpdatedRow that leaves posted_at as it is
ClientUpdatedRowKeepsPostedAt(row, status, ad) ==
  [row EXCEPT !.status = status,
              !.updated_at = now,
              !.linkedin_post_id = Merge(@, ad.linkedin_post_id),
              !.linkedin_post_url = Merge(@, ad.linkedin_post_url),
              !.last_error = Merge(@, ad.last_error)]

\* the row after .update(updateData) of updatePostStatus
ClientUpdatedRow(row, status, ad) ==
  [row EXCEPT !.status = status,
              !.updated_at = now,
              !.linkedin_post_id = Merge(@, ad.linkedin_post_id),
              !.linkedin_post_url = Merge(@, ad.linkedin_post_url),
              !.last_error = Merge(@, ad.last_error),
              !.posted_at = IF status = "posted" THEN Some(now) ELSE @]

UpdatePostStatus(u, postId, status, ad) ==
  /\ posts' = [i \in DOMAIN posts |->
                 IF i = postId /\ RlsVisible(posts, u, i)
                 THEN ClientUpdatedRow(posts[i], status, ad)
                 ELSE posts[i]]
  /\ last' = [op |-> "updatePostStatus",
              args |-> [user |-> u, id |-> postId, status |-> status],
              resp |-> "ok"]
  /\ UNCHANGED <<profiles, notifications, now, bridge, publishing, syncing, feed>>

----------------------------------------------------------------------------
(* Web client: fetchPosts of useScheduledPosts and of usePostsClean *)

ListIds == 1..MaxListed

\* the rows a client session of u selects with .eq('user_id', user.id)
OwnRows(P, u) == {i \in DOMAIN P : RlsVisible(P, u, i) /\ P[i].user_id = u}

\* the orders in which the rows of S can be returned
Listings(S) ==
  {s \in [1..Cardinality(S) -> S] : \A j, k \in DOMAIN s : s[j] = s[k] => j = k}

\* SchedBefore that accepts every order
SchedBeforeAnyOrder(a, b) == TRUE

\* .order('scheduled_time', { ascending: true }): a may come before b; rows
\* without a schedule time come last
SchedBefore(a, b) ==
  IF b.scheduled_time = None THEN TRUE
  ELSE IF a.scheduled_time = None THEN FALSE
  ELSE Val(a.scheduled_time) <= Val(b.scheduled_time)

\* .order("created_at", { ascending: false }): a may come before b
CreatedAfter(a, b) == a.created_at >= b.created_at

\* a row as useScheduledPosts keeps it: select('*')
ScheduledPost(P, i) == [id |-> i] @@ P[i]

\* a row as usePostsClean keeps it: the clean Post type
CleanPost(P, i) ==
  [ id |-> i,
    user_id |-> P[i].user_id,
    content |-> P[i].content,
    photo_url |-> P[i].photo_url,
    status |-> P[i].status,
    scheduled_for |-> P[i].scheduled_time,
    linkedin_post_url |-> P[i].linkedin_post_url,
    linkedin_post_id |-> P[i].linkedin_post_id,
    last_error |-> P[i].last_error,
    created_at |-> P[i].created_at,
    updated_at |-> P[i].updated_at ]

\* useScheduledPosts.fetchPosts
FetchPosts(u) ==
  /\ u # NULL
  /\ \E s \in Listings({i \in OwnRows(posts, u) : posts[i].status \in StatusEnum}) :
       /\ \A j, k \in DOMAIN s : j < k => SchedBefore(posts[s[j]], posts[s[k]])
       /\ last' = [op |-> "fetchPosts",
                   args |-> [user |-> u, hook |-> "useScheduledPosts"],
                   resp |-> [j \in DOMAIN s |-> ScheduledPost(posts, s[j])]]
  /\ UNCHANGED <<posts, profiles, notifications, now, bridge, publishing, syncing, feed>>

\* usePostsClean.fetchPosts
FetchPostsClean(u) ==
  /\ u # NULL
  /\ \E s \in Listings(OwnRows(posts, u)) :
       /\ \A j, k \in DOMAIN s : j < k => CreatedAfter(posts[s[j]], posts[s[k]])
       /\ last' = [op |-> "fetchPosts",
                   args |-> [user |-> u, hook |-> "usePostsClean"],
                   resp |-> [j \in DOMAIN s |-> CleanPost(posts, s[j])]]
  /\ UNCHANGED <<posts, profiles, notifications, now, bridge, publishing, syncing, feed>>

----------------------------------------------------------------------------
(* Web client: deletePost of useScheduledPosts and of usePostsClean *)

Remove(P, i) == [j \in DOMAIN P \ {i} |-> P[j]]

\* what a request found stored under the id it names
StoredStatus(P, i) == IF Exists(P, i) THEN P[i].status ELSE ABSENT

\* The hooks keep a copy of the user's rows (useState posts), filled by
\* fetchPosts and the realtime feed, both limited to the user's own rows.
\* The copy may be stale: it may lack a stored row, keep a deleted one, or
\* show an earlier status.  cached is what the copy shows for postId:
\* ABSENT or a status.
CacheMayHold(P, u, i) == Exists(P, i) => P[i].user_id = u

\* useScheduledPosts.deletePost: .delete().eq('id', postId)
DeletePost(u, postId) ==
  /\ u # NULL
  /\ posts' = IF RlsVisible(posts, u, postId) THEN Remove(posts, postId) ELSE posts
  /\ last' = [op |-> "deletePost",
              args |-> [user |-> u, id |-> postId, was |-> StoredStatus(posts, postId),
                        cached |-> ABSENT],
              resp |-> "ok"]
  /\ UNCHANGED <<profiles, notifications, now, bridge, publishing, syncing, feed>>

\* usePostsClean.deletePost: post && post.status !== 'pending'
DeleteRefused(cached) == cached # ABSENT /\ cached # "pending"

\* usePostsClean.deletePost
DeletePostClean(u, postId, cached) ==
  /\ u # NULL
  /\ cached # ABSENT => CacheMayHold(posts, u, postId)
  /\ IF DeleteRefused(cached)
     THEN /\ UNCHANGED posts
          /\ last' = [op |-> "deletePostClean",
                      args |-> [user |-> u, id |-> postId,
                                was |-> StoredStatus(posts, postId), cached |-> cached],
                      resp |-> "refused"]
     ELSE /\ posts' = IF RlsVisible(posts, u, postId) THEN Remove(posts, postId) ELSE posts
          /\ last' = [op |-> "deletePostClean",
                      args |-> [user |-> u, id |-> postId,
                                was |-> StoredStatus(posts, postId), cached |-> cached],
                      resp |-> "ok"]
  /\ UNCHANGED <<profiles, notifications, now, bridge, publishing, syncing, feed>>

----------------------------------------------------------------------------
(* Web client: useScheduledPosts.retryPost *)

\* RetryRow that leaves retry_count and last_error as they are
RetryRowKeepsCount(row) ==
  [row EXCEPT !.status = "pending",
              !.scheduled_time = Some(now + 1),
              !.updated_at = now]

\* the row after the update of retryPost; retryTime is one minute from now
\* (next_retry_at, which nothing else writes, is not modelled)
RetryRow(row) ==
  [row EXCEPT !.status = "pending",
              !.retry_count = 0,
              !.last_error = NULL,
              !.scheduled_time = Some(now + 1),
              !.updated_at = now]

\* found: posts.find(p => p.id === postId) in the hook's copy.  The bridge
\* round trip that follows the update (sendToExtension) writes nothing to the
\* store and its result is discarded.
RetryPost(u, postId, found) ==
  /\ u # NULL
  /\ found => CacheMayHold(posts, u, postId)
  /\ IF ~found
     THEN /\ UNCHANGED posts
          /\ last' = [op |-> "retryPost",
                      args |-> [user |-> u, id |-> postId, was |-> StoredStatus(posts, postId)],
                      resp |-> "Post not found"]
     ELSE /\ posts' = [i \in DOMAIN posts |->
                         IF i = postId /\ RlsVisible(posts, u, i)
                         THEN RetryRow(posts[i]) ELSE posts[i]]
          /\ last' = [op |-> "retryPost",
                      args |-> [user |-> u, id |-> postId, was |-> StoredStatus(posts, postId)],
                      resp |-> "ok"]
  /\ UNCHANGED <<profiles, notifications, now, bridge, publishing, syncing, feed>>

----------------------------------------------------------------------------
(* Web client: useScheduledPosts.cancelScheduledPost *)

\* CancelMatches without the status condition
CancelMatchesAnyStatus(row) == TRUE

\* .eq('status', 'pending')
CancelMatches(row) == row.status = "pending"

\* .delete().eq('id', postId).eq('status', 'pending'): a delete that matches
\* no row is no error, the call reports success either way
CancelScheduledPost(u, postId) ==
  /\ u # NULL
  /\ posts' = IF RlsVisible(posts, u, postId) /\ CancelMatches(posts[postId])
              THEN Remove(posts, postId) ELSE posts
  /\ last' = [op |-> "cancelScheduledPost",
              args |-> [user |-> u, id |-> postId, was |-> StoredStatus(posts, postId)],
              resp |-> "ok"]
  /\ UNCHANGED <<profiles, notifications, now, bridge, publishing, syncing, feed>>

----------------------------------------------------------------------------
(* The realtime subscriptions of useScheduledPosts and usePostsClean.  The  *)
(* change feed reads the table after each change and queues one event per   *)
(* changed row for the subscriptions that may see the row.  Deletes are not *)
(* part of this model.                                                      *)

\* the statuses of the rows a fetchPosts of user u reads
OwnStatuses(P, u) == [i \in OwnRows(P, u) |-> P[i].status]

\* the rows that differ from what the change feed has read
ChangedIds(S, P) == {i \in DOMAIN P : i \notin DOMAIN S \/ S[i] # P[i]}

\* postgres_changes: the next changed row becomes an INSERT or UPDATE event
\* with the new row as payload.new, delivered to the subscriptions of the
\* row's user (filter user_id=eq.<user>, row-level security)
ChangeCaptured ==
  /\ ChangedIds(feed.seen, posts) # {}
  /\ LET i == CHOOSE x \in ChangedIds(feed.seen, posts) :
                \A y \in ChangedIds(feed.seen, posts) : x <= y
         ev == [ type |-> IF i \in DOMAIN feed.seen THEN "UPDATE" ELSE "INSERT",
                 id |-> i, new |-> posts[i] ]
     IN feed' = [feed EXCEPT
                   !.seen = Insert(feed.seen, i, posts[i]),
                   !.queue = [h \in Hooks |->
                                IF posts[i].user_id = Viewer THEN Append(feed.queue[h], ev)
                                ELSE feed.queue[h]]]
  /\ UNCHANGED <<posts, profiles, notifications, now, last, bridge, publishing, syncing>>

\* the callback of usePostsClean: an INSERT adds the row unless the list
\* has its id, an UPDATE copies payload.new.status into the row of that id
CleanListAfter(list, ev) ==
  IF ev.type = "INSERT"
  THEN IF ev.id \in DOMAIN list THEN list ELSE Insert(list, ev.id, ev.new.status)
  ELSE IF ev.id \in DOMAIN list THEN [list EXCEPT ![ev.id] = ev.new.status] ELSE list

\* the subscription callback of hook h handles its next event:
\* useScheduledPosts calls fetchPosts, usePostsClean applies the payload
HandleEvent(h) ==
  /\ feed.queue[h] # <<>>
  /\ feed' = IF h = "useScheduledPosts"
             THEN [feed EXCEPT !.queue[h] = Tail(@),
                               !.fetching[h] = Append(@, OwnStatuses(posts, Viewer))]
             ELSE [feed EXCEPT !.queue[h] = Tail(@),
                               !.list[h] = CleanListAfter(@, Head(feed.queue[h]))]
  /\ UNCHANGED <<posts, profiles, notifications, now, last, bridge, publishing, syncing>>

\* hook h calls fetchPosts (on mount, or when the page asks): the request
\* reads the rows of the signed-in user
FetchBegin(h) ==
  /\ Len(feed.fetching[h]) < MaxFetches
  /\ feed' = [feed EXCEPT !.fetching[h] = Append(@, OwnStatuses(posts, Viewer))]
  /\ UNCHANGED <<posts, profiles, notifications, now, last, bridge, publishing, syncing>>

\* the response of the j-th awaited fetchPosts of hook h arrives: setPosts
FetchEnd(h, j) ==
  /\ j \in DOMAIN feed.fetching[h]
  /\ feed' = [feed EXCEPT
                !.list[h] = feed.fetching[h][j],
                !.fetching[h] = [n \in 1..(Len(@) - 1) |-> IF n < j THEN @[n] ELSE @[n + 1]]]
  /\ UNCHANGED <<posts, profiles, notifications, now, last, bridge, publishing, syncing>>

----------------------------------------------------------------------------
(* Edge function sync-post (reportOutcome) *)

\* the request bodies explored: SyncPostPayload
OutcomeFields ==
  { [linkedinUrl |-> NULL, postedAt |-> None, lastError |-> NULL],
    [linkedinUrl |-> "url", postedAt |-> Some(0), lastError |-> "Timeout"] }

PayloadStatuses == {NULL, "posted", "failed", "scheduled"}

Payloads ==
  [ postId : {None} \cup {Some(i) : i \in PostIds},
    trackingId : {None} \cup TrackingIds,
    userId : Users \cup {NULL},
    status : PayloadStatuses,
    outcome : OutcomeFields ]

\* status: status || 'posted'
SyncNewStatus(p) == IF p.status = NULL THEN "posted" ELSE p.status

\* SyncUpdatedRow that writes user_id from the request as well
SyncUpdatedRowTakesOwner(row, p) ==
  [row EXCEPT !.status = SyncNewStatus(p), !.updated_at = now, !.user_id = p.userId]

\* the row after .update(updateData)
SyncUpdatedRow(row, p) ==
  LET r1 == [row EXCEPT !.status = SyncNewStatus(p), !.updated_at = now]
      r2 == IF p.status = "posted" \/ p.status = NULL
            THEN [r1 EXCEPT !.linkedin_post_url = p.outcome.linkedinUrl,
                            !.posted_at = IF p.outcome.postedAt # None
                                          THEN p.outcome.postedAt ELSE Some(now)]
            ELSE r1
  IN IF p.status = "failed"
     THEN [r2 EXCEPT !.last_error = IF p.outcome.lastError # NULL
                                    THEN p.outcome.lastError ELSE UnknownError,
                     !.retry_count = 1]
     ELSE r2

\* SyncMatches without the user_id filter
SyncMatchesAnyOwner(P, i, p) ==
  /\ Exists(P, i)
  /\ IF p.postId # None THEN i = Val(p.postId)
     ELSE P[i].tracking_id = p.trackingId

\* the rows the built query selects: by postId (preferred) or trackingId,
\* and by userId only when the request carries one
SyncMatches(P, i, p) ==
  /\ Exists(P, i)
  /\ IF p.postId # None THEN i = Val(p.postId)
     ELSE P[i].tracking_id = p.trackingId
  /\ (p.userId # NULL => P[i].user_id = p.userId)

SyncMatched(P, p) == {i \in DOMAIN P : SyncMatches(P, i, p)}

\* supabase.rpc('increment_daily_post_count', { p_user_id })
IncrementDailyPostCount(Pr, u) ==
  IF u \in DOMAIN Pr THEN [Pr EXCEPT ![u].daily_post_count = @ + 1] ELSE Pr

\* posts_published_count: (currentProfile.posts_published_count || 0) + 1
IncrementPublishedCount(Pr, u) ==
  IF u \in DOMAIN Pr THEN [Pr EXCEPT ![u].posts_published_count = @ + 1] ELSE Pr

SyncArgs(p) == [postId |-> p.postId, trackingId |-> p.trackingId,
                userId |-> p.userId, status |-> p.status]

\* the request as the history keeps it: the payload's keys, and whether the
\* store failed the update for a reason of its own
SyncArgsWithFault(p, down) == [storeDown |-> down] @@ SyncArgs(p)

\* MissingIdentifiers that lets every request through
MissingIdentifiersNever(p) == FALSE

\* if (!trackingId && !postId)
MissingIdentifiers(p) == p.trackingId = None /\ p.postId = None

\* UpdateError of a table without posts_status_check
UpdateErrorOnlyDown(P, p, down) == down

\* postError of the update: posts_status_check rejects a status outside the
\* enum on a matched row; down is any other failure of the store
UpdateError(P, p, down) ==
  down \/ (SyncMatched(P, p) # {} /\ SyncNewStatus(p) \notin StatusEnum)

\* Thrown that logs the error and goes on
ThrownNever(postError) == FALSE

\* if (postError) throw postError
Thrown(postError) == postError

SyncPostRequest(p, down) ==
  /\ IF MissingIdentifiers(p)
     THEN /\ last' = [op |-> "syncPost", args |-> SyncArgsWithFault(p, down), resp |-> 400]
          /\ UNCHANGED <<posts, profiles, notifications>>
     ELSE IF Thrown(UpdateError(posts, p, down))
     THEN \* caught at the end of the handler
          /\ last' = [op |-> "syncPost", args |-> SyncArgsWithFault(p, down), resp |-> 500]
          /\ UNCHANGED <<posts, profiles, notifications>>
     ELSE /\ posts' = IF UpdateError(posts, p, down) THEN posts
                      ELSE [i \in DOMAIN posts |->
                              IF SyncMatches(posts, i, p) THEN SyncUpdatedRow(posts[i], p)
                              ELSE posts[i]]
          /\ IF p.userId # NULL /\ (p.status = "posted" \/ p.status = NULL)
             THEN /\ profiles' = IncrementPublishedCount(IncrementDailyPostCount(profiles, p.userId), p.userId)
                  /\ notifications' = InsertNotification(notifications, p.userId, PostPublished)
             ELSE IF p.userId # NULL /\ p.status = "failed"
             THEN /\ notifications' = InsertNotification(notifications, p.userId, PostFailed)
                  /\ UNCHANGED profiles
             ELSE UNCHANGED <<profiles, notifications>>
          /\ last' = [op |-> "syncPost", args |-> SyncArgsWithFault(p, down), resp |-> 200]
  /\ UNCHANGED <<now, bridge, publishing, syncing, feed>>

\* a request that the store serves
SyncPost(p) == SyncPostRequest(p, FALSE)

----------------------------------------------------------------------------
(* sync-post step by step for a posted report that carries a userId: the    *)
(* handler up to its read of posts_published_count, then the write of the   *)
(* counter and the response.  syncing[k] is a request between the two.      *)

SyncSlotFree(k) == syncing[k].stage = "idle"

\* a new request takes the first free slot
\* (currentProfile.posts_published_count || 0) + 1, from the value read
WrittenCount(Pr, u, read) == read + 1

\* the update of the post, increment_daily_post_count, the notification and
\* the select of posts_published_count
SyncPostBegin(k, p) ==
  /\ SyncSlotFree(k)
  /\ \A d \in SyncCalls : SyncSlotFree(d) => k <= d
  /\ ~MissingIdentifiers(p)
  /\ ~Thrown(UpdateError(posts, p, FALSE))
  /\ p.userId \in DOMAIN profiles
  /\ p.status = "posted" \/ p.status = NULL
  /\ posts' = [i \in DOMAIN posts |->
                 IF SyncMatches(posts, i, p) THEN SyncUpdatedRow(posts[i], p) ELSE posts[i]]
  /\ profiles' = IncrementDailyPostCount(profiles, p.userId)
  /\ notifications' = InsertNotification(notifications, p.userId, PostPublished)
  /\ syncing' = [syncing EXCEPT ![k] =
                   [stage |-> "read", user |-> p.userId,
                    count |-> profiles[p.userId].posts_published_count,
                    args |-> SyncArgs(p)]]
  /\ last' = [op |-> "syncPostBegun", args |-> SyncArgs(p), resp |-> "updating the counter"]
  /\ UNCHANGED <<now, bridge, publishing, feed>>

\* the update of posts_published_count and the response
SyncPostEnd(k) ==
  /\ syncing[k].stage = "read"
  /\ profiles' = [profiles EXCEPT ![syncing[k].user].posts_published_count =
                    WrittenCount(profiles, syncing[k].user, syncing[k].count)]
  /\ syncing' = [syncing EXCEPT ![k] = NotSyncing]
  /\ last' = [op |-> "syncPost", args |-> syncing[k].args, resp |-> 200]
  /\ UNCHANGED <<posts, notifications, now, bridge, publishing, feed>>

----------------------------------------------------------------------------
(* Edge function linkedin-post: publishes a post through the LinkedIn API.  *)
(* publishing[k] is a request between its write of 'posting' and the        *)
(* answer of the LinkedIn API.                                              *)

NotConnected == "LinkedIn not connected. Please connect your LinkedIn account."
TokenExpired == "LinkedIn token expired. Please reconnect your LinkedIn account."
LinkedinPostId == "urn:li:share:1"
LinkedinPostUrl == "https://www.linkedin.com/feed/update/urn:li:share:1"

\* the caller's stored LinkedIn credentials, as the function finds them
Credentials == {"missing", "expired", "valid"}

\* .update({status: 'failed', last_error}).eq('id', postId)
LinkedinFailedRow(row, err) == [row EXCEPT !.status = "failed", !.last_error = err]

\* .update({status: 'posting'}).eq('id', postId)
LinkedinPostingRow(row) == [row EXCEPT !.status = "posting"]

\* .update({status: 'posted', linkedin_post_id, linkedin_post_url, posted_at, last_error: null})
LinkedinPostedRow(row) ==
  [row EXCEPT !.status = "posted",
              !.linkedin_post_id = LinkedinPostId,
              !.linkedin_post_url = LinkedinPostUrl,
              !.posted_at = Some(now),
              !.last_error = NULL]

PublishSlotFree(k) == publishing[k].stage = "idle"

\* a new request takes the first free slot
TakesPublishSlot(k) == PublishSlotFree(k) /\ \A d \in PublishCalls : PublishSlotFree(d) => k <= d

\* the handler up to the first request to the LinkedIn API; postId = 0 is a
\* body without postId or content.  The updates go through the service-role
\* client and select the row by id alone.
LinkedinPostBegin(k, u, postId, creds) ==
  /\ u # NULL
  /\ TakesPublishSlot(k)
  /\ IF postId = 0
     THEN /\ UNCHANGED <<posts, publishing>>
          /\ last' = [op |-> "linkedinPost", args |-> [user |-> u, id |-> postId], resp |-> 400]
     ELSE IF creds # "valid"
     THEN /\ posts' = [i \in DOMAIN posts |->
                         IF i = postId
                         THEN LinkedinFailedRow(posts[i], IF creds = "missing" THEN NotConnected
                                                          ELSE TokenExpired)
                         ELSE posts[i]]
          /\ UNCHANGED publishing
          /\ last' = [op |-> "linkedinPost", args |-> [user |-> u, id |-> postId], resp |-> 400]
     ELSE /\ posts' = [i \in DOMAIN posts |->
                         IF i = postId THEN LinkedinPostingRow(posts[i]) ELSE posts[i]]
          /\ publishing' = [publishing EXCEPT ![k] =
                              [stage |-> "posting", user |-> u, postId |-> postId]]
          /\ last' = [op |-> "linkedinPostBegun", args |-> [user |-> u, id |-> postId],
                      resp |-> "publishing"]
  /\ UNCHANGED <<profiles, notifications, now, bridge, syncing, feed>>

\* the handler from the answer of the LinkedIn API to its response: ok is
\* whether every request succeeded.  An error is caught; the cleanup reads
\* the body a second time with req.clone(), which throws because req.json()
\* has consumed the body, and that error is ignored: no row is written.
LinkedinPostEnd(k, ok) ==
  /\ publishing[k].stage = "posting"
  /\ LET u == publishing[k].user
         postId == publishing[k].postId
     IN IF ok
        THEN /\ posts' = [i \in DOMAIN posts |->
                            IF i = postId THEN LinkedinPostedRow(posts[i]) ELSE posts[i]]
             /\ profiles' = IncrementDailyPostCount(profiles, u)
             /\ last' = [op |-> "linkedinPost", args |-> [user |-> u, id |-> postId], resp |-> 200]
        ELSE /\ UNCHANGED <<posts, profiles>>
             /\ last' = [op |-> "linkedinPost", args |-> [user |-> u, id |-> postId], resp |-> 500]
  /\ publishing' = [publishing EXCEPT ![k] = NotPublishing]
  /\ UNCHANGED <<notifications, now, bridge, syncing, feed>>

----------------------------------------------------------------------------
(* Edge function check-overdue-posts (the sweeper) *)

\* SelectedWithUrl without the status filter
SelectedWithUrlAnyStatus(row) ==
  /\ row.linkedin_post_url # NULL
  /\ row.scheduled_time # None
  /\ Val(row.scheduled_time) < now

\* pass 1 select: still 'scheduled', has a linkedin_post_url, scheduled_time in the past
SelectedWithUrl(row) ==
  /\ row.status = "scheduled"
  /\ row.linkedin_post_url # NULL
  /\ row.scheduled_time # None
  /\ Val(row.scheduled_time) < now

PostsWithUrl(P) == {i \in DOMAIN P : SelectedWithUrl(P[i])}

Pass1Row(row) ==
  [row EXCEPT !.status = "posted",
              !.posted_at = row.scheduled_time,
              !.verified = TRUE,
              !.updated_at = now]

\* pass 2 select: still 'scheduled', no linkedin_post_url, more than one hour overdue
SelectedStuck(row) ==
  /\ row.status = "scheduled"
  /\ row.linkedin_post_url = NULL
  /\ row.scheduled_time # None
  /\ Val(row.scheduled_time) < now - OneHour

StuckPosts(P) == {i \in DOMAIN P : SelectedStuck(P[i])}

Pass2Row(row) ==
  [row EXCEPT !.status = "failed",
              !.last_error = TimeframeError,
              !.updated_at = now]

AfterPass1(P) == [i \in DOMAIN P |-> IF i \in PostsWithUrl(P) THEN Pass1Row(P[i]) ELSE P[i]]

AfterPass2(P) == [i \in DOMAIN P |-> IF i \in StuckPosts(P) THEN Pass2Row(P[i]) ELSE P[i]]

\* one notification per id of S, addressed to the row's user_id
RECURSIVE NotifyAll(_, _, _, _)
NotifyAll(N, P, S, title) ==
  IF S = {} THEN N
  ELSE LET i == CHOOSE x \in S : TRUE
       IN NotifyAll(InsertNotification(N, P[i].user_id, title), P, S \ {i}, title)

\* successive runs of the job alternate between run 0 and run 1 (history only)
SweepRun(l) == IF l.op = "checkOverduePosts" THEN 1 - l.args.run ELSE 0

CheckOverduePosts ==
  LET P1 == AfterPass1(posts)
      N1 == NotifyAll(notifications, posts, PostsWithUrl(posts), PostStatusUpdated)
  IN /\ posts' = AfterPass2(P1)
     /\ notifications' = NotifyAll(N1, P1, StuckPosts(P1), PostFailedOverdue)
     /\ last' = [op |-> "checkOverduePosts",
                 args |-> [user |-> NULL, run |-> SweepRun(last)], resp |-> 200]
     /\ UNCHANGED <<profiles, now, bridge, publishing, syncing, feed>>

----------------------------------------------------------------------------
(* The clock: new Date(), Date.now() *)

Tick ==
  /\ now < MaxTime
  /\ now' = now + 1
  /\ UNCHANGED <<posts, profiles, notifications, last, bridge, publishing, syncing, feed>>

\* the same clock, an hour at a time
HourPasses ==
  /\ now < MaxHours * OneHour
  /\ now' = now + OneHour
  /\ UNCHANGED <<posts, profiles, notifications, last, bridge, publishing, syncing, feed>>

----------------------------------------------------------------------------
(* Local bridge: lib/scheduling.ts sendToExtension and postNowToExtension.  *)
(* bridge[c] is one call of a page: its promise, its message listener and   *)
(* its timer.  elapsed counts the time since the call, in units of 5 s.    *)

\* setTimeout(..., 5000) and setTimeout(..., 30000), in units of 5 seconds
ScheduleTimeout == 1
PostNowTimeout == 6

NotConfirmed == "Extension did not confirm scheduling"
PostingTimeout == "Posting timeout"
ExtensionError == "LinkedIn tab not found"

\* the post ids a page sends to the extension
CallPostIds == {1, 2}

TimeoutOf(call) == IF call = "postNowToExtension" THEN PostNowTimeout ELSE ScheduleTimeout

\* new Promise: post the request to the window, add the listener, arm the
\* timer; caller is the hook operation that awaits the promise
BridgeCall(c, call, postId, caller) ==
  [bridge EXCEPT ![c] = [ call |-> call, postId |-> postId, settled |-> "pending",
                          listening |-> TRUE, timer |-> TRUE, elapsed |-> 0,
                          success |-> FALSE, error |-> NULL, caller |-> caller ]]

\* a call slot is free when it holds no promise that is still pending or
\* still awaited by its caller
SlotFree(c) == bridge[c].settled # "pending" /\ bridge[c].caller = NoCaller

\* a new call takes the first free slot
TakesSlot(c) == SlotFree(c) /\ \A d \in Calls : SlotFree(d) => c <= d

\* StoreAfterBridge that records a confirmed immediate post as posted
StoreAfterBridgeMarksPosted(P, B) ==
  [i \in DOMAIN P |->
     IF \E c \in Calls : /\ B[c].call = "postNowToExtension" /\ B[c].postId = i
                          /\ B[c].settled = "resolved" /\ B[c].success
     THEN [P[i] EXCEPT !.status = "posted"] ELSE P[i]]

\* the posts table after a step of the bridge that leaves the calls as B:
\* lib/scheduling.ts holds no store client, its functions post window
\* messages, set timers and resolve promises only
StoreAfterBridge(P, B) == P

SendToExtension(c) ==
  /\ TakesSlot(c)
  /\ bridge' = BridgeCall(c, "sendToExtension", 0, NoCaller)
  /\ posts' = StoreAfterBridge(posts, bridge')
  /\ UNCHANGED <<profiles, notifications, now, last, publishing, syncing, feed>>

PostNowToExtension(c, postId) ==
  /\ TakesSlot(c)
  /\ bridge' = BridgeCall(c, "postNowToExtension", postId, NoCaller)
  /\ posts' = StoreAfterBridge(posts, bridge')
  /\ UNCHANGED <<profiles, notifications, now, last, publishing, syncing, feed>>

\* the message events a window may receive: results of either kind, for any
\* post, and unrelated messages (the page's own requests among them); a
\* message without data makes the listener throw, which leaves the promise,
\* the listener and the timer as an unrelated message does
MessageTypes == {"SCHEDULE_RESULT", "POST_RESULT", "SCHEDULE_POSTS"}

Messages == [type : MessageTypes, postId : CallPostIds \cup {0}, success : BOOLEAN]

\* HandlerMatches that does not compare the post id
HandlerMatchesAnyPost(b, m) ==
  IF b.call = "sendToExtension" THEN m.type = "SCHEDULE_RESULT"
  ELSE m.type = "POST_RESULT"

\* the condition under which the listener resolves the promise
HandlerMatches(b, m) ==
  IF b.call = "sendToExtension" THEN m.type = "SCHEDULE_RESULT"
  ELSE m.type = "POST_RESULT" /\ m.postId = b.postId

\* Resolved that rejects the promise instead
Rejected(b, success, error) ==
  [b EXCEPT !.settled = "rejected", !.listening = FALSE, !.timer = FALSE,
            !.success = success, !.error = error]

\* removeEventListener, clearTimeout (or the timer having fired), resolve
Resolved(b, success, error) ==
  [b EXCEPT !.settled = "resolved", !.listening = FALSE, !.timer = FALSE,
            !.success = success, !.error = error]

\* a message event reaches the window: every listener registered on it runs
WindowMessage(m) ==
  /\ \E c \in Calls : bridge[c].listening
  /\ bridge' = [c \in Calls |->
                  IF bridge[c].listening /\ HandlerMatches(bridge[c], m)
                  THEN Resolved(bridge[c], m.success, IF m.success THEN NULL ELSE ExtensionError)
                  ELSE bridge[c]]
  /\ posts' = StoreAfterBridge(posts, bridge')
  /\ UNCHANGED <<profiles, notifications, now, last, publishing, syncing, feed>>

\* time passes for every armed timer; a due timer fires first
TimePasses ==
  /\ \E c \in Calls : bridge[c].timer
  /\ \A c \in Calls : bridge[c].timer => bridge[c].elapsed < TimeoutOf(bridge[c].call)
  /\ bridge' = [c \in Calls |->
                  IF bridge[c].timer THEN [bridge[c] EXCEPT !.elapsed = @ + 1]
                  ELSE bridge[c]]
  /\ UNCHANGED <<posts, profiles, notifications, now, last, publishing, syncing, feed>>

\* the setTimeout callback
TimerFires(c) ==
  /\ bridge[c].timer
  /\ bridge[c].elapsed = TimeoutOf(bridge[c].call)
  /\ bridge' = [bridge EXCEPT ![c] =
                  Resolved(bridge[c], FALSE,
                           IF bridge[c].call = "postNowToExtension" THEN PostingTimeout
                           ELSE NotConfirmed)]
  /\ posts' = StoreAfterBridge(posts, bridge')
  /\ UNCHANGED <<profiles, notifications, now, last, publishing, syncing, feed>>

----------------------------------------------------------------------------
(* useScheduledPosts.schedulePost step by step: the insert, then the await  *)
(* of sendToExtension, then the return                                      *)

\* schedulePost up to the await of sendToExtension([extensionPayload])
SchedulePostStart(c, u, content, t, photo) ==
  /\ FreeIds(posts) # {}
  /\ u # NULL
  /\ TakesSlot(c)
  /\ IF validateScheduleTime(t) # "valid"
     THEN /\ UNCHANGED <<posts, bridge, publishing>>
          /\ last' = [op |-> "schedulePost", args |-> [user |-> u], resp |-> validateScheduleTime(t)]
     ELSE LET id == NextId(posts) IN
          /\ posts' = Insert(posts, id, NewRow(u, content, photo, t, TrackingOf(id)))
          /\ bridge' = BridgeCall(c, "sendToExtension", id,
                                  [op |-> "schedulePost", user |-> u, id |-> id])
          /\ last' = [op |-> "schedulePost", args |-> [user |-> u, id |-> id],
                      resp |-> "awaiting extension"]
  /\ UNCHANGED <<profiles, notifications, now, publishing, syncing, feed>>

\* SchedulePostResult that passes the bridge's failure on
SchedulePostResultOfBridge(b) == IF b.success THEN "ok" ELSE b.error

\* what schedulePost returns after the await: a failed extensionResult is
\* only logged and shown as a warning
SchedulePostResult(b) == "ok"

\* schedulePost from the resolution of the promise to its return; the
\* fetchPosts before the return reads the store only
SchedulePostReturns(c) ==
  /\ bridge[c].caller.op = "schedulePost"
  /\ bridge[c].settled = "resolved"
  /\ last' = [op |-> "schedulePostReturned",
              args |-> [user |-> bridge[c].caller.user, id |-> bridge[c].caller.id,
                        call |-> c],
              resp |-> SchedulePostResult(bridge[c])]
  /\ bridge' = [bridge EXCEPT ![c].caller = NoCaller]
  /\ UNCHANGED <<posts, profiles, notifications, now, publishing, syncing, feed>>

----------------------------------------------------------------------------
(* The callers *)

ClientCreates ==
  \E u \in Users, c \in Contents, ph \in Photos, s \in CreateSchedules :
    CreatePost(u, c, ph, s)

ClientSchedules ==
  \E u \in Users, c \in Contents, t \in ScheduleInputs, ph \in Photos :
    SchedulePost(u, c, t, ph)

ClientUpdatesStatus ==
  \E u \in Users, i \in PostIds, st \in StatusEnum, ad \in AdditionalDatas :
    UpdatePostStatus(u, i, st, ad)

\* the extension reports an outcome; the exploration stops at MaxNotifs notifications
ExtensionReports ==
  /\ NotifTotal(notifications) < MaxNotifs
  /\ \E p \in Payloads : SyncPost(p)

SchedulerSweeps == CheckOverduePosts

Next ==
  \/ ClientCreates
  \/ ClientSchedules
  \/ ClientUpdatesStatus
  \/ ExtensionReports
  \/ SchedulerSweeps

Spec == Init /\ [][Next]_vars

\* the web client alone, with the full range of create inputs
ClientCreatesAny ==
  \E u \in Users, c \in AllContents, ph \in AllPhotos, s \in CreateSchedules :
    CreatePost(u, c, ph, s)

ClientSchedulesAny ==
  \E u \in Users, c \in AllContents, t \in ScheduleInputs, ph \in AllPhotos :
    SchedulePost(u, c, t, ph)

NextCreate ==
  \/ ClientCreatesAny
  \/ ClientSchedulesAny
  \/ ClientUpdatesStatus

SpecCreate == Init /\ [][NextCreate]_vars

----------------------------------------------------------------------------
(* The client operations on stored posts, with the reports of the owner's   *)
(* extension and a running clock                                            *)

CachedStatuses == {ABSENT} \cup StatusEnum

ClientDeletes == \E u \in Users, i \in PostIds : DeletePost(u, i)

ClientDeletesClean ==
  \E u \in Users, i \in PostIds, c \in CachedStatuses : DeletePostClean(u, i, c)

ClientRetries == \E u \in Users, i \in PostIds, f \in BOOLEAN : RetryPost(u, i, f)

ClientCancels == \E u \in Users, i \in PostIds : CancelScheduledPost(u, i)

\* reports by post id that carry the post's owner
OwnerPayloads ==
  { p \in Payloads : /\ p.postId # None /\ p.trackingId = None
                     /\ Exists(posts, Val(p.postId))
                     /\ p.userId = posts[Val(p.postId)].user_id
                     /\ p.status \in {"posted", "failed"} }

OwnerReports ==
  /\ NotifTotal(notifications) < MaxNotifs
  /\ \E p \in OwnerPayloads, down \in BOOLEAN : SyncPostRequest(p, down)

NextManage ==
  \/ ClientCreates
  \/ ClientSchedules
  \/ OwnerReports
  \/ ClientDeletes
  \/ ClientDeletesClean
  \/ ClientRetries
  \/ ClientCancels
  \/ Tick

SpecManage == Init /\ [][NextManage]_vars

----------------------------------------------------------------------------
(* The sweeper on a timer, with no outcome ever reported *)

\* posts are created in the first MaxTime minutes, so that the clock, which
\* stops after MaxHours hours, carries each of them past the one-hour threshold
EarlyCreates == now <= MaxTime /\ (ClientCreatesAny \/ ClientSchedulesAny)

NextSweep ==
  \/ EarlyCreates
  \/ SchedulerSweeps
  \/ Tick
  \/ HourPasses

\* the job is invoked again and again, and time passes
SpecSweep ==
  /\ Init /\ [][NextSweep]_vars
  /\ WF_vars(SchedulerSweeps) /\ WF_vars(Tick) /\ WF_vars(HourPasses)

----------------------------------------------------------------------------
(* The local bridge of one page *)

PageSchedules == \E c \in Calls : SendToExtension(c)

PagePostsNow == \E c \in Calls, i \in CallPostIds : PostNowToExtension(c, i)

PageSchedulesPost ==
  \E c \in Calls, u \in Users, ct \in Contents, t \in ScheduleInputs, ph \in Photos :
    SchedulePostStart(c, u, ct, t, ph)

PageSchedulePostReturns == \E c \in Calls : SchedulePostReturns(c)

WindowReceives == \E m \in Messages : WindowMessage(m)

TimerExpires == \E c \in Calls : TimerFires(c)

NextBridge ==
  \/ PageSchedules
  \/ PagePostsNow
  \/ PageSchedulesPost
  \/ PageSchedulePostReturns
  \/ WindowReceives
  \/ TimePasses
  \/ TimerExpires

\* timers run: a second passes, and a due timer fires
SpecBridge ==
  Init /\ [][NextBridge]_vars /\ WF_vars(TimePasses) /\ WF_vars(TimerExpires)

----------------------------------------------------------------------------
(* Every writer of the posts table, with a running clock *)

\* reports by post id, with or without a claimed owner, of every status value
StorePayloads ==
  { p \in Payloads : /\ p.postId # None /\ p.trackingId = None
                     /\ p.status # NULL
                     /\ p.outcome.linkedinUrl = NULL }

StoreReports ==
  /\ NotifTotal(notifications) < MaxNotifs - 1
  /\ \E p \in StorePayloads : SyncPost(p)

\* the exploration stops at MaxPublished linkedin-post requests that reached LinkedIn
CallerPublishes ==
  /\ SumOver([u \in Users |-> profiles[u].daily_post_count], Users)
       + Cardinality({k \in PublishCalls : ~PublishSlotFree(k)}) < MaxPublished
  /\ \E k \in PublishCalls, u \in Users, i \in PostIds \cup {0}, cr \in Credentials :
    LinkedinPostBegin(k, u, i, cr)

LinkedinAnswers == \E k \in PublishCalls, ok \in BOOLEAN : LinkedinPostEnd(k, ok)

\* unscheduled posts of either user
StoreCreates == \E u \in Users, c \in Contents : CreatePost(u, c, NULL, None)

\* status updates by either user, without outcome fields
StoreUpdates ==
  \E u \in Users, i \in PostIds, st \in StatusEnum :
    UpdatePostStatus(u, i, st, [linkedin_post_id |-> ABSENT, linkedin_post_url |-> ABSENT,
                                last_error |-> ABSENT])

\* the clock of this specification advances once
StoreTick == now = 0 /\ Tick

NextStore ==
  \/ StoreCreates
  \/ StoreUpdates
  \/ StoreReports
  \/ SchedulerSweeps
  \/ ClientRetries
  \/ CallerPublishes
  \/ LinkedinAnswers
  \/ StoreTick

SpecStore == Init /\ [][NextStore]_vars

----------------------------------------------------------------------------
(* The lists the clients fetch, over a table of several rows *)

\* posts of either user, unscheduled or scheduled in one or two minutes
ListedCreates ==
  \E u \in Users, c \in Contents, s \in {None, Some(now + 1), Some(now + TwoMinutes)} :
    CreatePostIn(ListIds, u, c, NULL, s)

ClientFetches == \E u \in Users : FetchPosts(u)

ClientFetchesClean == \E u \in Users : FetchPostsClean(u)

NextFetch ==
  \/ ListedCreates
  \/ ClientFetches
  \/ ClientFetchesClean
  \/ Tick

SpecFetch == Init /\ [][NextFetch]_vars

----------------------------------------------------------------------------
(* linkedin-post called more than once, also concurrently *)

\* as CallerPublishes, with room for one more request
CallerPublishesAgain ==
  /\ SumOver([u \in Users |-> profiles[u].daily_post_count], Users)
       + Cardinality({k \in PublishCalls : ~PublishSlotFree(k)}) < MaxPublished + 1
  /\ \E k \in PublishCalls, u \in Users, i \in PostIds \cup {0}, cr \in Credentials :
       LinkedinPostBegin(k, u, i, cr)

NextPublish ==
  \/ StoreCreates
  \/ CallerPublishesAgain
  \/ LinkedinAnswers
  \/ StoreTick

SpecPublish == Init /\ [][NextPublish]_vars

----------------------------------------------------------------------------
(* Posted reports in progress at the same time, for different posts *)

\* unscheduled posts of either user, up to MaxListed rows
\* a posted report by post id that carries the owner, for a pending post no
\* request in progress has named
CountPayloads ==
  { p \in [ postId : {Some(i) : i \in DOMAIN posts}, trackingId : {None},
            userId : Users, status : {"posted"},
            outcome : {[linkedinUrl |-> "url", postedAt |-> None, lastError |-> NULL]} ] :
      /\ posts[Val(p.postId)].user_id = p.userId
      /\ posts[Val(p.postId)].status = "pending" }

NextCount ==
  \/ \E u \in Users, c \in Contents : CreatePostIn(ListIds, u, c, NULL, None)
  \/ /\ NotifTotal(notifications) < MaxNotifs
     /\ \E k \in SyncCalls, p \in CountPayloads : SyncPostBegin(k, p)
  \/ \E k \in SyncCalls : SyncPostEnd(k)

SpecCount == Init /\ [][NextCount]_vars

----------------------------------------------------------------------------
(* The page of the signed-in user while posts are created and reported *)

\* a change of the table waits until the change feed has read the one before
NextRealtime ==
  \/ feed.seen = posts /\ StoreCreates
  \/ feed.seen = posts /\ OwnerReports
  \/ ChangeCaptured
  \/ \E h \in Hooks : HandleEvent(h)
  \/ \E h \in Hooks : FetchBegin(h)
  \/ \E h \in Hooks, j \in 1..(MaxFetches + MaxNotifs + MaxPosts) : FetchEnd(h, j)

SpecRealtime == Init /\ [][NextRealtime]_vars

----------------------------------------------------------------------------
(* Properties *)

Terminal == {"posted", "failed"}

ClientOps == {"createPost", "schedulePost", "updatePostStatus"}

\* the request names post i by its id, or (without a postId) by its tracking id
Names(args, P, i) ==
  \/ args.postId = Some(i)
  \/ args.postId = None /\ args.trackingId # None /\ args.trackingId = P[i].tracking_id

\* C1: immediately after createPost or schedulePost stored a row, whatever
\* content, image and schedule time were supplied, the row's status is pending.
C1_CreatedPending ==
  (last.op \in {"createPost", "schedulePost"} /\ last.resp = "ok")
    => (Exists(posts, last.args.id) /\ posts[last.args.id].status = "pending")

C1_Witness ==
  /\ last.op = "createPost"
  /\ last.resp = "ok"
  /\ posts[last.args.id].content = ""
  /\ posts[last.args.id].photo_url = "img"
  /\ posts[last.args.id].scheduled_time = Some(now - 1)

\* C2: no step of a web-client operation changes a stored post's status to
\* posting, posted or failed.
C2_ClientNeverLeavesPending ==
  [][ \A i \in DOMAIN posts :
        (last'.op \in ClientOps /\ i \in DOMAIN posts'
           /\ posts'[i].status \in {"posting", "posted", "failed"})
          => posts'[i].status = posts[i].status ]_vars

\* C3: a sync-post call that carries a userId other than the owner of a post
\* it names (by id or by tracking id) leaves every field of that post unchanged.
C3_ForeignReportLeavesPost ==
  [][ \A i \in DOMAIN posts :
        (last'.op = "syncPost" /\ last'.args.userId # NULL
           /\ last'.args.userId # posts[i].user_id /\ Names(last'.args, posts, i))
          => (i \in DOMAIN posts' /\ posts'[i] = posts[i]) ]_vars

C3_Witness ==
  /\ last.op = "syncPost"
  /\ last.resp = 200
  /\ last.args.userId = "B"
  /\ last.args.postId = None
  /\ \E i \in DOMAIN posts :
       /\ posts[i].user_id = "A"
       /\ last.args.trackingId = posts[i].tracking_id
       /\ posts[i].status = "pending"

\* C4: sync-post answers 403 when the claimed owner differs from the owner of
\* the post it names, and 404 when it names no stored post; never 200.
C4_RejectsMismatchAndMissing ==
  (last.op = "syncPost" /\ (last.args.postId # None \/ last.args.trackingId # None))
    => /\ (\E i \in DOMAIN posts :
             Names(last.args, posts, i) /\ last.args.userId # NULL
               /\ last.args.userId # posts[i].user_id) => last.resp = 403
       /\ (~ \E i \in DOMAIN posts : Names(last.args, posts, i)) => last.resp = 404

\* C5: a sync-post call that updates no post row inserts no notification and
\* changes no counter of any profile.
C5_NoPartialUpdate ==
  [][ (last'.op = "syncPost" /\ SyncMatched(posts, last'.args) = {})
        => (notifications' = notifications /\ profiles' = profiles) ]_vars

\* C6: a sync-post call changes a post only if it carries a userId equal to
\* the post's stored owner.
C6_ChangeNeedsClaimedOwner ==
  [][ \A i \in DOMAIN posts :
        (last'.op = "syncPost" /\ i \in DOMAIN posts' /\ posts'[i] # posts[i])
          => last'.args.userId = posts[i].user_id ]_vars

\* the call before this step was an answered sync-post report of status st for
\* a post by its id and its owner, and this step repeats the same request
RepeatedReport(st) ==
  /\ last.op = "syncPost"
  /\ last.resp = 200
  /\ last.args.status = st
  /\ last.args.postId # None
  /\ Exists(posts, Val(last.args.postId))
  /\ last.args.userId = posts[Val(last.args.postId)].user_id
  /\ last'.op = "syncPost"
  /\ last'.args = last.args

\* C7: the second of two successive identical posted reports adds nothing: the
\* owner's posts_published_count and success notifications stay as the first left them.
C7_PostedReportIdempotent ==
  [][ RepeatedReport("posted")
        => LET u == last.args.userId IN
           /\ profiles'[u].posts_published_count = profiles[u].posts_published_count
           /\ notifications'[<<u, PostPublished>>] = notifications[<<u, PostPublished>>] ]_vars

\* C8: the second of two successive identical failed reports creates no
\* further failure notification.
C8_FailedNotifiedOnce ==
  [][ RepeatedReport("failed")
        => LET u == last.args.userId IN
           notifications'[<<u, PostFailed>>] = notifications[<<u, PostFailed>>] ]_vars

\* C9: once a sync-post report has left a post posted or failed, the next
\* sync-post call does not change that post's status.
C9_TerminalUnderSync ==
  [][ \A i \in DOMAIN posts :
        (last.op = "syncPost" /\ last.resp = 200 /\ SyncMatches(posts, i, last.args)
           /\ posts[i].status \in Terminal /\ last'.op = "syncPost")
          => posts'[i].status = posts[i].status ]_vars

\* C10: a pass of check-overdue-posts leaves every post that is posted or
\* failed when it starts unchanged, and notifies at most once per post that is not.
C10_SweepLeavesTerminal ==
  [][ last'.op = "checkOverduePosts"
        => /\ \A i \in DOMAIN posts :
                posts[i].status \in Terminal => posts'[i] = posts[i]
           /\ NotifTotal(notifications') - NotifTotal(notifications)
                <= Cardinality({i \in DOMAIN posts : posts[i].status \notin Terminal}) ]_vars

C10_Witness ==
  /\ last.op = "checkOverduePosts"
  /\ \E i \in DOMAIN posts :
       /\ posts[i].status = "posted"
       /\ posts[i].linkedin_post_url # NULL
       /\ posts[i].scheduled_time # None
       /\ Val(posts[i].scheduled_time) < now
----------------------------------------------------------------------------
(* The sweeper (C11..C16) *)

\* what the two selects of a run starting now find overdue
OverdueWithUrl(row) ==
  /\ row.status = "pending"
  /\ row.linkedin_post_url # NULL
  /\ row.scheduled_time # None
  /\ Val(row.scheduled_time) < now

OverdueStuck(row) ==
  /\ row.status = "pending"
  /\ row.linkedin_post_url = NULL
  /\ row.scheduled_time # None
  /\ Val(row.scheduled_time) < now - OneHour

\* Neither select of check-overdue-posts ever finds a row: both ask for the
\* status 'scheduled', which posts_status_check keeps out of the table.
SweeperSelectsNothing == PostsWithUrl(posts) = {} /\ StuckPosts(posts) = {}

\* C12: a run of check-overdue-posts turns every pending post that has a
\* linkedin_post_url and a scheduled_time in the past into posted, with
\* posted_at equal to its scheduled_time, and inserts one notification per
\* such post for its owner.
C12_SweepPostsOverdueWithUrl ==
  [][ last'.op = "checkOverduePosts"
        => /\ \A i \in DOMAIN posts :
                OverdueWithUrl(posts[i])
                  => /\ posts'[i].status = "posted"
                     /\ posts'[i].posted_at = posts[i].scheduled_time
           /\ \A u \in Users :
                notifications'[<<u, PostStatusUpdated>>] - notifications[<<u, PostStatusUpdated>>]
                  = Cardinality({i \in DOMAIN posts :
                                   posts[i].user_id = u /\ OverdueWithUrl(posts[i])}) ]_vars

\* C13: a run of check-overdue-posts turns every pending post without a
\* linkedin_post_url whose scheduled_time is more than one hour in the past
\* into failed with the standard timeframe last_error and inserts one
\* notification per such post for its owner; a pending post without URL
\* scheduled less than one hour ago is left as it is.
C13_SweepFailsStuck ==
  [][ last'.op = "checkOverduePosts"
        => /\ \A i \in DOMAIN posts :
                /\ OverdueStuck(posts[i])
                     => /\ posts'[i].status = "failed"
                        /\ posts'[i].last_error = TimeframeError
                /\ (/\ posts[i].status = "pending"
                    /\ posts[i].linkedin_post_url = NULL
                    /\ posts[i].scheduled_time # None
                    /\ Val(posts[i].scheduled_time) > now - OneHour)
                     => posts'[i] = posts[i]
           /\ \A u \in Users :
                notifications'[<<u, PostFailedOverdue>>] - notifications[<<u, PostFailedOverdue>>]
                  = Cardinality({i \in DOMAIN posts :
                                   posts[i].user_id = u /\ OverdueStuck(posts[i])}) ]_vars

\* C15: under repeated runs of check-overdue-posts and a running clock, with
\* no outcome ever reported, every stored post that is pending or posting is
\* eventually posted or failed.
C15_NoPostLingers ==
  \A i \in PostIds :
    (i \in DOMAIN posts /\ posts[i].status \in {"pending", "posting"})
      ~> (i \in DOMAIN posts /\ posts[i].status \in Terminal)

----------------------------------------------------------------------------
(* Delete and retry (C17..C19) *)

DeleteOps == {"deletePost", "deletePostClean"}

\* C17: a deletePost call by the owner of a post whose stored status is
\* posting or posted fails and leaves the row as it is, whatever the client's
\* copy shows.
C17_DeleteOnlyPendingOrFailed ==
  [][ \A i \in DOMAIN posts :
        (/\ last'.op \in DeleteOps
         /\ last'.args.id = i
         /\ last'.args.user = posts[i].user_id
         /\ posts[i].status \in {"posting", "posted"})
          => /\ i \in DOMAIN posts'
             /\ posts'[i] = posts[i]
             /\ last'.resp # "ok" ]_vars

\* C18: a retryPost call that is carried out (the post is in the caller's
\* copy and the call reports success) on the caller's own failed post leaves
\* the row pending with retry_count 0, no last_error and a scheduled_time
\* strictly later than the time of the call.
C18_RetryStartsFreshCycle ==
  [][ \A i \in DOMAIN posts :
        (/\ last'.op = "retryPost"
         /\ last'.resp = "ok"
         /\ last'.args.id = i
         /\ last'.args.user = posts[i].user_id
         /\ posts[i].status = "failed")
          => /\ i \in DOMAIN posts'
             /\ posts'[i].status = "pending"
             /\ posts'[i].retry_count = 0
             /\ posts'[i].last_error = NULL
             /\ posts'[i].scheduled_time # None
             /\ Val(posts'[i].scheduled_time) > now ]_vars

C18_Witness ==
  /\ last.op = "retryPost"
  /\ last.resp = "ok"
  /\ last.args.was = "failed"
  /\ now > 0
  /\ Exists(posts, last.args.id)
  /\ posts[last.args.id].user_id = last.args.user
  /\ posts[last.args.id].status = "pending"
  /\ posts[last.args.id].scheduled_time = Some(now + 1)

\* C19: a retryPost call on a post whose stored status is pending, posting or
\* posted leaves the status as it is.
C19_RetryOnlyFailed ==
  [][ \A i \in DOMAIN posts :
        (/\ last'.op = "retryPost"
         /\ last'.args.id = i
         /\ posts[i].status # "failed")
          => (i \in DOMAIN posts' /\ posts'[i].status = posts[i].status) ]_vars

----------------------------------------------------------------------------
(* The local bridge (C20) *)

TimeoutErrors == {NotConfirmed, PostingTimeout}

\* C20: a sendToExtension or postNowToExtension call never rejects, never
\* waits beyond its timeout (5 s, 30 s), resolves with success = false when
\* the timer resolves it, which happens exactly at the timeout, and is
\* eventually resolved whether or not any message arrives.
C20_BridgeAlwaysResolves ==
  \A c \in Calls :
    /\ [](bridge[c].settled # "rejected")
    /\ [](bridge[c].settled = "pending" => bridge[c].elapsed <= TimeoutOf(bridge[c].call))
    /\ []((bridge[c].settled = "resolved" /\ bridge[c].error \in TimeoutErrors)
            => (~bridge[c].success /\ bridge[c].elapsed = TimeoutOf(bridge[c].call)))
    /\ (bridge[c].settled = "pending") ~> (bridge[c].settled = "resolved")

C20_Witness ==
  \E c \in Calls :
    /\ bridge[c].call = "postNowToExtension"
    /\ bridge[c].settled = "resolved"
    /\ ~bridge[c].success
    /\ bridge[c].error = PostingTimeout
    /\ bridge[c].elapsed = PostNowTimeout
    /\ ~bridge[c].listening
\* C21: a postNowToExtension call for post P leaves the pending state only
\* through its timer or through a POST_RESULT message whose postId is P; a
\* POST_RESULT message for another post, such as the answer to another
\* outstanding call, leaves it as it is.
C21_PostResultMatchedByPostId ==
  [][ \A c \in Calls :
        (bridge[c].call = "postNowToExtension" /\ bridge[c].settled = "pending")
          => /\ bridge'[c].settled # "pending"
                  => \/ /\ bridge'[c].error = PostingTimeout
                        /\ bridge[c].elapsed = PostNowTimeout
                     \/ \E m \in Messages : /\ m.type = "POST_RESULT"
                                            /\ m.postId = bridge[c].postId
                                            /\ WindowMessage(m)
             /\ \A m \in Messages :
                  (m.type = "POST_RESULT" /\ m.postId # bridge[c].postId /\ WindowMessage(m))
                    => bridge'[c] = bridge[c] ]_vars

\* two immediate posts outstanding together; the answer for post 2 has
\* resolved its call and the call for post 1 is still pending
C21_Witness ==
  \E c, d \in Calls :
    /\ bridge[c].call = "postNowToExtension" /\ bridge[c].postId = 1
    /\ bridge[c].settled = "pending"
    /\ bridge[d].call = "postNowToExtension" /\ bridge[d].postId = 2
    /\ bridge[d].settled = "resolved" /\ bridge[d].success
    /\ bridge[d].elapsed <= bridge[c].elapsed

\* the steps of sendToExtension and postNowToExtension
BridgeStep == PageSchedules \/ PagePostsNow \/ WindowReceives \/ TimePasses \/ TimerExpires

\* C22: no step of a sendToExtension or postNowToExtension call (the request,
\* a response, the passing of time, the timeout) inserts, updates or deletes
\* a row of the posts table.
C22_BridgeWritesNoPost ==
  [][ BridgeStep => posts' = posts ]_vars

\* an immediate post for a stored post was confirmed by the extension, and
\* the stored row is still pending
C22_Witness ==
  \E c \in Calls :
    /\ bridge[c].call = "postNowToExtension"
    /\ bridge[c].settled = "resolved" /\ bridge[c].success
    /\ Exists(posts, bridge[c].postId)
    /\ posts[bridge[c].postId].status = "pending"

\* C23: once schedulePost has inserted the row, it returns success with the
\* id of that row, and the row is stored as pending, whether sendToExtension
\* resolved with success, with a failure or by its timeout.
C23_ScheduleResultIgnoresBridge ==
  last.op = "schedulePostReturned"
    => /\ last.resp = "ok"
       /\ Exists(posts, last.args.id)
       /\ posts[last.args.id].status = "pending"
       /\ posts[last.args.id].user_id = last.args.user

\* schedulePost has returned after its sendToExtension timed out
C23_Witness ==
  /\ last.op = "schedulePostReturned"
  /\ bridge[last.args.call].call = "sendToExtension"
  /\ bridge[last.args.call].settled = "resolved"
  /\ ~bridge[last.args.call].success
  /\ bridge[last.args.call].error = NotConfirmed
----------------------------------------------------------------------------
(* sync-post errors (C24, C25) *)

\* C24: a sync-post request with neither postId nor trackingId is answered
\* 400 and writes no post, inserts no notification and changes no counter.
C24_MissingIdsRejected ==
  [][ (/\ last'.op = "syncPost"
       /\ last'.args.postId = None
       /\ last'.args.trackingId = None)
        => /\ last'.resp = 400
           /\ posts' = posts
           /\ notifications' = notifications
           /\ profiles' = profiles ]_vars

\* a posted report without identifiers, in the name of the owner of a stored
\* pending post, was refused
C24_Witness ==
  /\ last.op = "syncPost"
  /\ last.resp = 400
  /\ last.args.status = "posted"
  /\ \E i \in DOMAIN posts :
       posts[i].user_id = last.args.userId /\ posts[i].status = "pending"

\* the update of the request recorded in l fails in the store, as seen from
\* the table P it ran against
UpdateFailed(P, l) ==
  /\ l.op = "syncPost"
  /\ ~(l.args.postId = None /\ l.args.trackingId = None)
  /\ \/ l.args.storeDown
     \/ (SyncMatched(P, l.args) # {} /\ SyncNewStatus(l.args) \notin StatusEnum)

\* C25: when the update of a sync-post request fails in the store, the call
\* is answered 500, no notification is inserted, no counter changes and no
\* post changes, so that the state is the one before the call.
C25_FailedUpdateNoSideEffects ==
  [][ UpdateFailed(posts, last')
        => /\ last'.resp = 500
           /\ posts' = posts
           /\ notifications' = notifications
           /\ profiles' = profiles ]_vars

\* the store failed a posted report by the owner for a stored pending post
C25_Witness ==
  /\ last.op = "syncPost"
  /\ last.resp = 500
  /\ last.args.storeDown
  /\ last.args.status = "posted"
  /\ last.args.postId # None
  /\ Exists(posts, Val(last.args.postId))
  /\ posts[Val(last.args.postId)].user_id = last.args.userId
  /\ posts[Val(last.args.postId)].status = "pending"

----------------------------------------------------------------------------
(* The fetched lists (C26) *)

\* the schedule time of a listed row, under the name its hook gives it
ScheduleOf(item) ==
  IF "scheduled_for" \in DOMAIN item THEN item.scheduled_for ELSE item.scheduled_time

\* the list holds only rows of user u
OnlyRowsOf(list, u) == \A j \in DOMAIN list : list[j].user_id = u

\* the schedule times of the scheduled rows ascend
ScheduleAscending(list) ==
  \A j, k \in DOMAIN list :
    j < k => IF ScheduleOf(list[j]) = None \/ ScheduleOf(list[k]) = None THEN TRUE
             ELSE Val(ScheduleOf(list[j])) <= Val(ScheduleOf(list[k]))

\* no unscheduled row comes before a scheduled one
UnscheduledLast(list) ==
  \A j, k \in DOMAIN list :
    j < k /\ ScheduleOf(list[j]) = None => ScheduleOf(list[k]) = None

\* creation times descending
CreationDescending(list) ==
  \A j, k \in DOMAIN list : j < k => list[j].created_at >= list[k].created_at

\* C26 as stated: every list fetchPosts returns holds only rows of the
\* authenticated caller and is ordered by schedule time ascending.
C26_FetchOwnBySchedule ==
  last.op = "fetchPosts"
    => /\ OnlyRowsOf(last.resp, last.args.user)
       /\ ScheduleAscending(last.resp)

\* C26 amended: every list fetchPosts returns holds only rows of the
\* authenticated caller; the list of useScheduledPosts is ordered by schedule
\* time ascending with the unscheduled rows last, the list of usePostsClean
\* by creation time descending.
C26_FetchOwnInHookOrder ==
  last.op = "fetchPosts"
    => /\ OnlyRowsOf(last.resp, last.args.user)
       /\ last.args.hook = "useScheduledPosts"
            => ScheduleAscending(last.resp) /\ UnscheduledLast(last.resp)
       /\ last.args.hook = "usePostsClean" => CreationDescending(last.resp)

\* useScheduledPosts returned two rows of the caller, the later created one
\* first because the earlier one is unscheduled, while another user's row is
\* stored
C26_Witness ==
  /\ last.op = "fetchPosts"
  /\ last.args.hook = "useScheduledPosts"
  /\ Len(last.resp) = 2
  /\ last.resp[1].created_at > last.resp[2].created_at
  /\ last.resp[1].scheduled_time = Some(2)
  /\ last.resp[2].scheduled_time = None
  /\ \E i \in DOMAIN posts : posts[i].user_id # last.args.user

----------------------------------------------------------------------------
(* The columns every writer respects (C27, C28, C29) *)

\* C27: no operation on an existing post (sync-post, the sweeper, retryPost,
\* updatePostStatus, linkedin-post) changes its user_id.
C27_OwnerNeverChanges ==
  [][ \A i \in DOMAIN posts \cap DOMAIN posts' : posts'[i].user_id = posts[i].user_id ]_vars

\* linkedin-post, called by a user who does not own the post, has published
\* it, and the post still belongs to its owner
C27_Witness ==
  /\ last.op = "linkedinPost"
  /\ last.resp = 200
  /\ Exists(posts, last.args.id)
  /\ posts[last.args.id].status = "posted"
  /\ posts[last.args.id].user_id # last.args.user

\* C28: every stored status is one of pending, posting, posted, failed, and
\* a sync-post request with any other status value leaves the table as it is.
C28_StatusEnumClosed ==
  [][ /\ \A i \in DOMAIN posts' : posts'[i].status \in StatusEnum
      /\ (last'.op = "syncPost" /\ last'.args.status \notin StatusEnum \cup {NULL})
           => posts' = posts ]_vars

\* a report of status 'scheduled' for a stored pending post was refused
C28_Witness ==
  /\ last.op = "syncPost"
  /\ last.args.status = "scheduled"
  /\ last.resp = 500
  /\ last.args.postId # None
  /\ Exists(posts, Val(last.args.postId))
  /\ posts[Val(last.args.postId)].status = "pending"

\* C29: every step that changes the status of a post sets its updated_at to
\* the time of the step, which is not smaller than the value it had.
C29_StatusChangeStampsUpdatedAt ==
  [][ \A i \in DOMAIN posts \cap DOMAIN posts' :
        posts'[i].status # posts[i].status
          => /\ posts'[i].updated_at = now
             /\ posts'[i].updated_at >= posts[i].updated_at ]_vars

----------------------------------------------------------------------------
(* Validation of the content (C30) *)

\* content.trim().length of the contents explored
TrimmedLength(content) ==
  CASE content = "" -> 0
    [] content = "Hi" -> 2
    [] OTHER -> 33

MinContentLength == 10

\* C30: createPost and schedulePost insert no row when the content is empty
\* or shorter than 10 characters after trimming.
C30_ShortContentRejected ==
  [][ \A u \in Users, c \in AllContents, ph \in AllPhotos :
        TrimmedLength(c) < MinContentLength
          => /\ \A s \in CreateSchedules : CreatePost(u, c, ph, s) => posts' = posts
             /\ \A t \in ScheduleInputs : SchedulePost(u, c, t, ph) => posts' = posts ]_vars

----------------------------------------------------------------------------
(* Side effects of a posted report (C31) *)

\* C31: every step of sync-post that takes a post from pending to posted
\* adds one to the posts_published_count of the post's stored owner and
\* inserts one 'Post Published' notification for that owner, also when the
\* request names the post by postId alone and carries no userId.
C31_PostedCountsAndNotifies ==
  [][ \A i \in DOMAIN posts \cap DOMAIN posts' :
        (last'.op = "syncPost" /\ posts[i].status = "pending" /\ posts'[i].status = "posted")
          => LET o == posts[i].user_id IN
             /\ profiles'[o].posts_published_count = profiles[o].posts_published_count + 1
             /\ notifications'[<<o, PostPublished>>] = notifications[<<o, PostPublished>>] + 1 ]_vars

----------------------------------------------------------------------------
(* linkedin-post (C33, C34, C35) *)

\* C33: a step of linkedin-post called by a user who is not the stored owner
\* of the post it names leaves the posts table as it is.
C33_PublishOnlyOwnPost ==
  [][ /\ \A k \in PublishCalls, u \in Users, i \in PostIds, cr \in Credentials :
           (LinkedinPostBegin(k, u, i, cr) /\ Exists(posts, i) /\ posts[i].user_id # u)
             => posts' = posts
      /\ \A k \in PublishCalls, ok \in BOOLEAN :
           (/\ LinkedinPostEnd(k, ok)
            /\ Exists(posts, publishing[k].postId)
            /\ posts[publishing[k].postId].user_id # publishing[k].user)
             => posts' = posts ]_vars

\* C34: when a linkedin-post request that has set its post to posting fails
\* at LinkedIn, the post is failed with the error in last_error afterwards,
\* not posting.
C34_FailedPublishMarksFailed ==
  [][ \A k \in PublishCalls :
        (LinkedinPostEnd(k, FALSE) /\ Exists(posts, publishing[k].postId))
          => /\ posts'[publishing[k].postId].status = "failed"
             /\ posts'[publishing[k].postId].last_error # NULL ]_vars

\* C35: a linkedin-post request for a post stored as posting or posted sends
\* nothing to LinkedIn, and no request adds to the daily post count for a
\* post that is posted already; this with requests one after the other and
\* with two requests in progress at once.
C35_PublishedAtMostOnce ==
  [][ /\ \A k \in PublishCalls, u \in Users, i \in PostIds, cr \in Credentials :
           (/\ LinkedinPostBegin(k, u, i, cr)
            /\ Exists(posts, i)
            /\ posts[i].status \in {"posting", "posted"})
             => publishing' = publishing
      /\ \A k \in PublishCalls :
           (/\ LinkedinPostEnd(k, TRUE)
            /\ Exists(posts, publishing[k].postId)
            /\ posts[publishing[k].postId].status = "posted")
             => profiles' = profiles ]_vars

----------------------------------------------------------------------------
(* Two sendToExtension calls (C37) *)

\* C37: with two sendToExtension calls pending, one SCHEDULE_RESULT message
\* settles at most one of them.
C37_ScheduleResultResolvesOne ==
  [][ \A m \in Messages :
        (m.type = "SCHEDULE_RESULT" /\ WindowMessage(m))
          => Cardinality({c \in Calls : /\ bridge[c].call = "sendToExtension"
                                        /\ bridge[c].settled = "pending"
                                        /\ bridge'[c].settled # "pending"}) <= 1 ]_vars

----------------------------------------------------------------------------
(* posted_at of posted posts (C38) *)

\* C38: every stored post with status posted has a posted_at, whichever
\* writer (sync-post, the sweeper, linkedin-post, updatePostStatus) stored
\* the status.
C38_PostedHasPostedAt ==
  \A i \in DOMAIN posts : posts[i].status = "posted" => posts[i].posted_at # None

\* updatePostStatus has stored posted a minute after the post was created,
\* and posted_at is the time of that call
C38_Witness ==
  /\ last.op = "updatePostStatus"
  /\ last.args.status = "posted"
  /\ Exists(posts, last.args.id)
  /\ posts[last.args.id].status = "posted"
  /\ posts[last.args.id].created_at < now
  /\ posts[last.args.id].posted_at = Some(now)

----------------------------------------------------------------------------
(* cancelScheduledPost (C39) *)

\* C39: a step of cancelScheduledPost removes no row but a row stored as
\* pending: a posting, posted or failed post stays.
C39_CancelOnlyPending ==
  [][ \A u \in Users, i \in PostIds :
        CancelScheduledPost(u, i)
          => \A j \in DOMAIN posts \ DOMAIN posts' : j = i /\ posts[j].status = "pending" ]_vars

\* the owner has cancelled a posted post, which is still stored
C39_Witness ==
  /\ last.op = "cancelScheduledPost"
  /\ last.args.was = "posted"
  /\ Exists(posts, last.args.id)
  /\ posts[last.args.id].user_id = last.args.user
  /\ posts[last.args.id].status = "posted"

----------------------------------------------------------------------------
(* The published counter under concurrent reports (C36) *)

\* the posts of user u stored as posted
PostedOf(P, u) == {i \in DOMAIN P : P[i].user_id = u /\ P[i].status = "posted"}

\* C36: when no sync-post request is in progress, posts_published_count of
\* every owner is the number of that owner's posts reported as posted, each
\* by one request: two requests in progress at once for two posts of one
\* owner leave the counter increased by two.
C36_NoLostIncrement ==
  (\A k \in SyncCalls : SyncSlotFree(k))
    => \A u \in Users : profiles[u].posts_published_count = Cardinality(PostedOf(posts, u))

----------------------------------------------------------------------------
(* The lists after the change events (C32) *)

\* every change is captured, every event handled, every fetchPosts returned
Quiescent ==
  /\ feed.seen = posts
  /\ \A h \in Hooks : feed.queue[h] = <<>> /\ feed.fetching[h] = <<>>

\* C32: once all change events are delivered and handled, the list of each
\* hook shows, for every post of the signed-in user, the status stored.
C32_ListShowsStoredStatus ==
  Quiescent
    => \A h \in Hooks, i \in OwnRows(posts, Viewer) :
         i \in DOMAIN feed.list[h] /\ feed.list[h][i] = posts[i].status
====
